---- MODULE Spec2Model ----
(***************************************************************************)
(* Model of the two Streamlit finance trackers of this repository:         *)
(*   src/finance-app-v3/app.py    ("v3")                                   *)
(*   src/finance-app-v4-2/app.py  ("v4")                                   *)
(* A Streamlit script is re-executed from top to bottom on every user      *)
(* interaction of a browser session.  One script run is modelled as the    *)
(* file accesses it performs: the load of the goals file, the load of the  *)
(* savings file, and then the rest of the script (the one button or form   *)
(* that triggered the run, its file write, and everything rendered).       *)
(*                                                                         *)
(* Library behaviour assumed (pandas of the generation that still has      *)
(* DataFrame.append, used at v3 line 105): read_csv turns an empty field   *)
(* or a default NA token into NaN, parses the amount column to floats,     *)
(* keeps other text as strings, parses parse_dates columns element by      *)
(* element into Timestamps; to_csv writes NaN as the empty field and       *)
(* every other object with str().  st.cache_data keeps one cache per       *)
(* server process, shared by the sessions, and returns copies.             *)
(***************************************************************************)
EXTENDS Integers, Sequences, FiniteSets, TLC

\* ---- bounds of the model ------------------------------------------------
MaxGoals == 2
MaxEntries == 2
MaxIds == 3       \* goal ids ever generated
MaxRuns == 4      \* script runs ever started

\* ---- inputs the user can type or pick -----------------------------------
Sessions == {1, 2}
NameInputs == {"", "A"}
TargetInputs == {100, 500}
TimelineInputs == {6}
PriorityInputs == {50}
Days == {1}
AmountInputs == {-50, 50}
SourceInputs == {"salary"}
NotesInputs == {"", "trip"}

\* ---- widget limits and constants of the scripts -------------------------
TargetMinV3 == 500
TargetMinV4 == 100
\* mutation: the widget minimum is lowered below zero
AmountMinLowered == 0 - 50
AmountMin == 0
TaxRatePct == 30
DefaultSalary == 105000
DefaultExpenses == 3200

VARIABLES app, live, goalsFile, savingsFile, goalsCache, savingsCache,
          nextId, runs, pc, goals, savings_df, salary, expenses, shown, event

vars == <<app, live, goalsFile, savingsFile, goalsCache, savingsCache,
          nextId, runs, pc, goals, savings_df, salary, expenses, shown, event>>

\* ---- sequences ----------------------------------------------------------
RECURSIVE SumSeq(_)
SumSeq(s) == IF s = <<>> THEN 0 ELSE Head(s) + SumSeq(Tail(s))

\* ---- cell values of a DataFrame -----------------------------------------
Str(t) == [k |-> "str", s |-> t, n |-> 0]
NaN == [k |-> "nan", s |-> "", n |-> 0]
Float(x) == [k |-> "float", s |-> "", n |-> x]
DateObj(d) == [k |-> "date", s |-> "", n |-> d]
Timestamp(d) == [k |-> "ts", s |-> "", n |-> d]

\* ---- text forms ---------------------------------------------------------
FloatText(x) == ToString(x) \o ".0"
IntText(x) == ToString(x)
DateText(d) == "2025-01-0" \o ToString(d)
DateTimeText(d) == DateText(d) \o " 00:00:00"
NAValues == {"", "NA", "N/A", "NULL", "NaN", "nan", "null", "n/a", "#N/A", "<NA>"}

FloatDomain == AmountInputs \cup TargetInputs
ParseFloat(t) == CHOOSE x \in FloatDomain : FloatText(x) = t
ParseInt(t) == CHOOSE x \in TimelineInputs \cup PriorityInputs : IntText(x) = t
ParseDate(t) == CHOOSE d \in Days : t \in {DateText(d), DateTimeText(d)}

Uuid(n) == "g" \o ToString(n)

\* ---- goals file: json.dump / json.load ----------------------------------
JsonDumpGoal(g) ==
    [id |-> g.id, name |-> g.name, target_amount |-> FloatText(g.target_amount),
     timeline_months |-> IntText(g.timeline_months), priority |-> IntText(g.priority),
     start_date |-> g.start_date]

JsonLoadGoal(o) ==
    [id |-> o.id, name |-> o.name, target_amount |-> ParseFloat(o.target_amount),
     timeline_months |-> ParseInt(o.timeline_months), priority |-> ParseInt(o.priority),
     start_date |-> o.start_date]

JsonDump(gs) == [i \in 1..Len(gs) |-> JsonDumpGoal(gs[i])]
JsonLoad(f) == [i \in 1..Len(f) |-> JsonLoadGoal(f[i])]

\* ---- savings file: DataFrame.to_csv / pandas.read_csv -------------------
\* A date column whose cells are all Timestamps is a datetime64 column and
\* is written date-only; otherwise it is an object column written with str().
IsDatetimeColumn(df) == \A i \in 1..Len(df) : df[i].date.k = "ts"

FormatCell(c) ==
    CASE c.k = "nan" -> ""
      [] c.k = "str" -> c.s
      [] c.k = "float" -> FloatText(c.n)
      [] c.k = "date" -> DateText(c.n)
      [] c.k = "ts" -> DateTimeText(c.n)

FormatDate(c, datetimeColumn) ==
    IF datetimeColumn /\ c.k = "ts" THEN DateText(c.n) ELSE FormatCell(c)

ToCsv(df) ==
    [i \in 1..Len(df) |->
        [date |-> FormatDate(df[i].date, IsDatetimeColumn(df)),
         amount |-> FormatCell(df[i].amount),
         source |-> FormatCell(df[i].source),
         goal_id |-> FormatCell(df[i].goal_id),
         notes |-> FormatCell(df[i].notes)]]

ParseText(t) == IF t \in NAValues THEN NaN ELSE Str(t)
ParseAmount(t) == IF t \in NAValues THEN NaN ELSE Float(ParseFloat(t))
ParseDateCell(t, parseDates) ==
    IF t \in NAValues THEN NaN
    ELSE IF parseDates THEN Timestamp(ParseDate(t)) ELSE Str(t)

ReadCsv(f, parseDates) ==
    [i \in 1..Len(f) |->
        [date |-> ParseDateCell(f[i].date, parseDates),
         amount |-> ParseAmount(f[i].amount),
         source |-> ParseText(f[i].source),
         goal_id |-> ParseText(f[i].goal_id),
         notes |-> ParseText(f[i].notes)]]

\* ---- arithmetic of the progress figures (exact rationals) ---------------
RECURSIVE GCD(_, _)
GCD(a, b) == IF b = 0 THEN a ELSE GCD(b, a % b)
Abs(x) == IF x < 0 THEN -x ELSE x

Rat(n, d) ==
    LET g == GCD(Abs(n), Abs(d))
        sgn == IF d < 0 THEN -1 ELSE 1
    IN [k |-> "num", n |-> (sgn * n) \div g, d |-> (sgn * d) \div g]
Num(x) == Rat(x, 1)
Inf == [k |-> "inf", n |-> 0, d |-> 1]
Fault == [k |-> "ZeroDivisionError", n |-> 0, d |-> 1]

RatSub(a, b) == Rat(a.n * b.d - b.n * a.d, a.d * b.d)
IsNum(a) == a.k = "num"
RatMul(a, b) == IF IsNum(a) /\ IsNum(b) THEN Rat(a.n * b.n, a.d * b.d) ELSE Fault
RatDiv(a, b) == IF IsNum(a) /\ IsNum(b) /\ b.n # 0 THEN Rat(a.n * b.d, a.d * b.n) ELSE Fault
RatPositive(a) == a.n > 0

\* monthly_income = gross_income * (1 - tax_rate) / 12 ; surplus = income - expense
MonthlySurplus(gross, expense) ==
    RatSub(RatDiv(RatMul(Num(gross), Rat(100 - TaxRatePct, 100)), Num(12)), Num(expense))

\* v4 overview: savings_df["amount"].sum() over all entries
RECURSIVE TotalSaved(_)
TotalSaved(df) ==
    IF df = <<>> THEN 0
    ELSE (IF Head(df).amount.k = "float" THEN Head(df).amount.n ELSE 0) + TotalSaved(Tail(df))

\* mutation: the goal filter is dropped
GoalSavingsUnfiltered(df, goal_id) == TotalSaved(df)

\* savings_log[savings_log["goal_id"] == goal_id]["amount"].sum()
RECURSIVE GoalSavings(_, _)
GoalSavings(df, goal_id) ==
    IF df = <<>> THEN 0
    ELSE (IF Head(df).goal_id = Str(goal_id) /\ Head(df).amount.k = "float"
          THEN Head(df).amount.n ELSE 0) + GoalSavings(Tail(df), goal_id)

\* mutation: the guard admits a zero surplus
MonthsToGoalGuardGE(remaining, monthly_surplus) ==
    IF monthly_surplus.n >= 0 THEN RatDiv(Num(remaining), monthly_surplus) ELSE Inf

MonthsToGoal(remaining, monthly_surplus) ==
    IF RatPositive(monthly_surplus) THEN RatDiv(Num(remaining), monthly_surplus) ELSE Inf

PercentComplete(goal_savings, target_amount) ==
    IF target_amount > 0
    THEN RatMul(RatDiv(Num(goal_savings), Num(target_amount)), Num(100))
    ELSE Num(0)

GoalSnapshot(goal, df, monthly_surplus) ==
    LET goal_savings == GoalSavings(df, goal.id)
        remaining == goal.target_amount - goal_savings
    IN [kind |-> "goal", id |-> goal.id, target |-> goal.target_amount,
        saved |-> goal_savings, remaining |-> remaining,
        monthly_required |-> RatDiv(Num(goal.target_amount), Num(goal.timeline_months)),
        months_to_goal |-> MonthsToGoal(remaining, monthly_surplus),
        percent |-> PercentComplete(goal_savings, goal.target_amount)]

DisplayGoals(gs, df, monthly_surplus) ==
    [i \in 1..Len(gs) |-> GoalSnapshot(gs[i], df, monthly_surplus)]

\* v4 overview: totals over all goals and all entries
TotalTarget(gs) == SumSeq([i \in 1..Len(gs) |-> gs[i].target_amount])

Overview(gs, df) ==
    LET total_target == TotalTarget(gs)
        total_saved == TotalSaved(df)
    IN << [kind |-> "overview", total_target |-> total_target, total_saved |-> total_saved,
           pct_total |-> IF total_target > 0
                         THEN RatMul(RatDiv(Num(total_saved), Num(total_target)), Num(100))
                         ELSE Num(0)] >>

Render(s, gs, df) ==
    IF app = "v3" THEN DisplayGoals(gs, df, MonthlySurplus(salary[s], expenses[s]))
    ELSE Overview(gs, df)

\* ---- state after construction -------------------------------------------
NoEvent == [op |-> "none", s |-> 0, ok |-> FALSE, id |-> ""]

\* No data directory yet: both files absent.  An absent file and a file
\* holding the empty collection load alike (v3 lines 17-27, v4 lines 18-30),
\* so both are the empty sequence.
InitFiles ==
    /\ goalsFile = <<>>
    /\ savingsFile = <<>>
    /\ goalsCache = <<>>
    /\ savingsCache = <<>>
    /\ nextId = 1
    /\ runs = 0

InitSessions ==
    /\ pc = [s \in Sessions |-> "idle"]
    /\ goals = [s \in Sessions |-> <<>>]
    /\ savings_df = [s \in Sessions |-> <<>>]
    /\ salary = [s \in Sessions |-> DefaultSalary]
    /\ expenses = [s \in Sessions |-> DefaultExpenses]
    /\ shown = [s \in Sessions |-> <<>>]
    /\ event = NoEvent

\* one browser session
Init ==
    /\ app \in {"v3", "v4"}
    /\ live = {1}
    /\ InitFiles
    /\ InitSessions

\* two browser sessions of the same server
InitRace ==
    /\ app \in {"v3", "v4"}
    /\ live = Sessions
    /\ InitFiles
    /\ InitSessions

\* ---- file writes --------------------------------------------------------
\* v3 lines 59-60: the goals file is rewritten whole
WriteGoalsFile(gs) ==
    /\ goalsFile' = JsonDump(gs)
    /\ UNCHANGED <<goalsCache, savingsFile, savingsCache>>

\* v3 line 106
WriteSavingsFile(df) ==
    /\ savingsFile' = ToCsv(df)
    /\ UNCHANGED <<savingsCache, goalsFile, goalsCache>>

\* mutation: the cache of load_goals is not cleared
save_goals_no_clear(gs) ==
    /\ goalsFile' = JsonDump(gs)
    /\ UNCHANGED <<goalsCache, savingsFile, savingsCache>>

\* mutation: entries of goals that are no longer stored are dropped as well
RECURSIVE RowsOfGoals(_, _)
RowsOfGoals(f, ids) ==
    IF f = <<>> THEN <<>>
    ELSE IF Head(f).goal_id \in ids THEN <<Head(f)>> \o RowsOfGoals(Tail(f), ids)
         ELSE RowsOfGoals(Tail(f), ids)

save_goals_cascade(gs) ==
    /\ goalsFile' = JsonDump(gs)
    /\ goalsCache' = <<>>
    /\ savingsFile' = RowsOfGoals(savingsFile, {gs[i].id : i \in 1..Len(gs)})
    /\ savingsCache' = <<>>

\* v4 save_goals: rewrite the file, clear the cache of load_goals
save_goals(gs) ==
    /\ goalsFile' = JsonDump(gs)
    /\ goalsCache' = <<>>
    /\ UNCHANGED <<savingsFile, savingsCache>>

\* v4 save_savings
save_savings(df) ==
    /\ savingsFile' = ToCsv(df)
    /\ savingsCache' = <<>>
    /\ UNCHANGED <<goalsFile, goalsCache>>

\* ---- start of a script run: the two loads -------------------------------
LoadGoals(s) ==
    /\ s \in live
    /\ pc[s] = "idle"
    /\ runs < MaxRuns
    /\ runs' = runs + 1
    /\ IF app = "v4"
       THEN IF goalsCache = <<>>
            THEN /\ goalsCache' = <<JsonLoad(goalsFile)>>
                 /\ goals' = [goals EXCEPT ![s] = JsonLoad(goalsFile)]
            ELSE /\ goals' = [goals EXCEPT ![s] = goalsCache[1]]
                 /\ UNCHANGED goalsCache
       ELSE /\ goals' = [goals EXCEPT ![s] = JsonLoad(goalsFile)]
            /\ UNCHANGED goalsCache
    /\ pc' = [pc EXCEPT ![s] = "goals_loaded"]
    /\ UNCHANGED <<app, live, goalsFile, savingsFile, savingsCache, nextId,
                   savings_df, salary, expenses, shown, event>>

LoadSavings(s) ==
    /\ s \in live
    /\ pc[s] = "goals_loaded"
    /\ IF app = "v4"
       THEN IF savingsCache = <<>>
            THEN /\ savingsCache' = <<ReadCsv(savingsFile, TRUE)>>
                 /\ savings_df' = [savings_df EXCEPT ![s] = ReadCsv(savingsFile, TRUE)]
            ELSE /\ savings_df' = [savings_df EXCEPT ![s] = savingsCache[1]]
                 /\ UNCHANGED savingsCache
       ELSE /\ savings_df' = [savings_df EXCEPT ![s] = ReadCsv(savingsFile, FALSE)]
            /\ UNCHANGED savingsCache
    /\ pc' = [pc EXCEPT ![s] = "loaded"]
    /\ UNCHANGED <<app, live, goalsFile, savingsFile, goalsCache, nextId, runs,
                   goals, salary, expenses, shown, event>>

\* ---- rest of a script run -----------------------------------------------
\* a run no button or form triggered: everything is rendered, nothing written
Rerun(s) ==
    /\ s \in live
    /\ pc[s] = "loaded"
    /\ shown' = [shown EXCEPT ![s] = Render(s, goals[s], savings_df[s])]
    /\ event' = [op |-> "rerun", s |-> s, ok |-> TRUE, id |-> ""]
    /\ pc' = [pc EXCEPT ![s] = "idle"]
    /\ UNCHANGED <<app, live, goalsFile, savingsFile, goalsCache, savingsCache,
                   nextId, runs, goals, savings_df, salary, expenses>>

TargetMin == IF app = "v3" THEN TargetMinV3 ELSE TargetMinV4

NewGoal(name, target_amount, timeline_months, priority, today) ==
    [id |-> Uuid(nextId), name |-> name, target_amount |-> target_amount,
     timeline_months |-> timeline_months, priority |-> priority,
     start_date |-> DateText(today)]

\* mutation: the file is read again right before the append
GoalsAfterAddReread(s, new_goal) == Append(JsonLoad(goalsFile), new_goal)

\* goals.append(new_goal)
GoalsAfterAdd(s, new_goal) == Append(goals[s], new_goal)

\* v3 "Add Goal" button (before the display), v4 goal_form (after the overview)
AddGoal(s, name, target_amount, timeline_months, priority, today) ==
    /\ s \in live
    /\ pc[s] = "loaded"
    /\ target_amount >= TargetMin
    /\ nextId <= MaxIds
    /\ Len(goals[s]) < MaxGoals
    /\ LET new_goal == NewGoal(name, target_amount, timeline_months, priority, today)
           gs == GoalsAfterAdd(s, new_goal)
       IN /\ goals' = [goals EXCEPT ![s] = gs]
          /\ IF app = "v3" THEN WriteGoalsFile(gs) ELSE save_goals(gs)
          /\ shown' = [shown EXCEPT ![s] =
                 IF app = "v3" THEN Render(s, gs, savings_df[s])
                 ELSE Render(s, goals[s], savings_df[s])]
          /\ event' = [op |-> "addGoal", s |-> s, ok |-> TRUE, id |-> new_goal.id]
    /\ nextId' = nextId + 1
    /\ pc' = [pc EXCEPT ![s] = "idle"]
    /\ UNCHANGED <<app, live, runs, savings_df, salary, expenses>>

\* goals[:] = [g for g in goals if g["name"] != to_delete]
RECURSIVE GoalsWithoutName(_, _)
GoalsWithoutName(gs, to_delete) ==
    IF gs = <<>> THEN <<>>
    ELSE IF Head(gs).name # to_delete
         THEN <<Head(gs)>> \o GoalsWithoutName(Tail(gs), to_delete)
         ELSE GoalsWithoutName(Tail(gs), to_delete)

\* v4 "Delete Selected Goal": option i of the selectbox is the name of goal i
DeleteGoal(s, i) ==
    /\ s \in live
    /\ pc[s] = "loaded"
    /\ app = "v4"
    /\ i \in 1..Len(goals[s])
    /\ LET to_delete == goals[s][i].name
           gs == GoalsWithoutName(goals[s], to_delete)
       IN /\ to_delete # ""
          /\ goals' = [goals EXCEPT ![s] = gs]
          /\ save_goals(gs)
          /\ event' = [op |-> "deleteGoal", s |-> s, ok |-> TRUE, id |-> goals[s][i].id]
    /\ shown' = [shown EXCEPT ![s] = Render(s, goals[s], savings_df[s])]
    /\ pc' = [pc EXCEPT ![s] = "idle"]
    /\ UNCHANGED <<app, live, nextId, runs, savings_df, salary, expenses>>

\* v4 line 137: next(g["id"] for g in goals if g["name"] == goal_nm)
RECURSIVE FirstIdWithName(_, _)
FirstIdWithName(gs, goal_nm) ==
    IF Head(gs).name = goal_nm THEN Head(gs).id ELSE FirstIdWithName(Tail(gs), goal_nm)

\* the row built by the form: v3 lines 98-104, v4 lines 137-138
NewRow(s, i, date, amount, source, notes) ==
    IF app = "v3"
    THEN [date |-> Str(DateText(date)), amount |-> Float(amount), source |-> Str(source),
          goal_id |-> Str(goals[s][i].id), notes |-> Str(notes)]
    ELSE [date |-> DateObj(date), amount |-> Float(amount), source |-> Str(source),
          goal_id |-> Str(FirstIdWithName(goals[s], goals[s][i].name)), notes |-> Str(notes)]

\* savings_log.append(new_row) / pd.concat([savings_df, DataFrame([new_row])])
LedgerAfterAppend(s, new_row) == Append(savings_df[s], new_row)

\* the savings form submitted with option i of the goal selectbox
LogSaving(s, i, date, amount, source, notes) ==
    /\ s \in live
    /\ pc[s] = "loaded"
    /\ amount >= AmountMin
    /\ i \in 1..Len(goals[s])
    /\ Len(savings_df[s]) < MaxEntries
    /\ LET df == LedgerAfterAppend(s, NewRow(s, i, date, amount, source, notes))
       IN /\ savings_df' = [savings_df EXCEPT ![s] = df]
          /\ IF app = "v3" THEN WriteSavingsFile(df) ELSE save_savings(df)
    /\ shown' = [shown EXCEPT ![s] = Render(s, goals[s], savings_df[s])]
    /\ event' = [op |-> "logSaving", s |-> s, ok |-> TRUE, id |-> goals[s][i].id]
    /\ pc' = [pc EXCEPT ![s] = "idle"]
    /\ UNCHANGED <<app, live, nextId, runs, goals, salary, expenses>>

\* The number_input refuses an amount below min_value (v3 line 92, v4 line
\* 131); with no goal the selectbox yields None and building the row raises
\* (v3 line 102: None[0], v4 line 137: StopIteration) before anything is
\* appended or written.
LogSavingRejected(s, amount) ==
    /\ s \in live
    /\ pc[s] = "loaded"
    /\ amount < AmountMin \/ Len(goals[s]) = 0
    /\ shown' = [shown EXCEPT ![s] = Render(s, goals[s], savings_df[s])]
    /\ event' = [op |-> "logSaving", s |-> s, ok |-> FALSE, id |-> ""]
    /\ pc' = [pc EXCEPT ![s] = "idle"]
    /\ UNCHANGED <<app, live, goalsFile, savingsFile, goalsCache, savingsCache,
                   nextId, runs, goals, savings_df, salary, expenses>>

\* ---- specifications -----------------------------------------------------
Next ==
    \E s \in Sessions :
        \/ LoadGoals(s)
        \/ LoadSavings(s)
        \/ Rerun(s)
        \/ \E name \in NameInputs, target_amount \in TargetInputs,
              timeline_months \in TimelineInputs, priority \in PriorityInputs,
              today \in Days :
              AddGoal(s, name, target_amount, timeline_months, priority, today)
        \/ \E i \in 1..MaxGoals : DeleteGoal(s, i)
        \/ \E i \in 1..MaxGoals, date \in Days, amount \in AmountInputs,
              source \in SourceInputs, notes \in NotesInputs :
              LogSaving(s, i, date, amount, source, notes)
        \/ \E amount \in AmountInputs : LogSavingRejected(s, amount)

Spec == Init /\ [][Next]_vars

SpecRace == InitRace /\ [][Next]_vars

\* ---- the progress figures as pure functions of their inputs -------------
SalaryInputs == {60000, 105000}
ExpenseInputs == {3200, 3500, 10000}
CalcTargets == {-100, 0, 500, 1000, 6000}
CalcTimelines == {4, 6}
CalcAmounts == {50, 600, 1500}
CalcGoalIds == {"g1", "g2", "g9"}

CalcGoal(id, target_amount, timeline_months) ==
    [id |-> id, name |-> "A", target_amount |-> target_amount,
     timeline_months |-> timeline_months, priority |-> 50, start_date |-> DateText(1)]

CalcRow(goal_id, amount) ==
    [date |-> Str(DateText(1)), amount |-> Float(amount), source |-> Str("salary"),
     goal_id |-> Str(goal_id), notes |-> NaN]

CalcGoalLists ==
    { <<CalcGoal("g1", t, m)>> : t \in CalcTargets, m \in CalcTimelines }
    \cup { <<CalcGoal("g1", t, m), CalcGoal("g2", 500, 6)>> : t \in CalcTargets, m \in CalcTimelines }

CalcRows == { CalcRow(g, a) : g \in CalcGoalIds, a \in CalcAmounts }

CalcLedgers == UNION { [1..n -> CalcRows] : n \in 0..MaxEntries }

\* a v3 script run that has loaded any goals and any ledger, with any
\* sidebar settings, and is about to render
InitCalc ==
    /\ app = "v3"
    /\ live = {1}
    /\ InitFiles
    /\ pc = [s \in Sessions |-> IF s = 1 THEN "loaded" ELSE "idle"]
    /\ \E gs \in CalcGoalLists : goals = [s \in Sessions |-> IF s = 1 THEN gs ELSE <<>>]
    /\ \E df \in CalcLedgers : savings_df = [s \in Sessions |-> IF s = 1 THEN df ELSE <<>>]
    /\ \E x \in SalaryInputs : salary = [s \in Sessions |-> x]
    /\ \E x \in ExpenseInputs : expenses = [s \in Sessions |-> x]
    /\ shown = [s \in Sessions |-> <<>>]
    /\ event = NoEvent

NextCalc == \E s \in Sessions : Rerun(s)

SpecCalc == InitCalc /\ [][NextCalc]_vars

\* ======================= properties =======================================
Ids(gs) == { gs[i].id : i \in 1..Len(gs) }
WithoutId(gs, id) == SelectSeq(gs, LAMBDA g : g.id # id)

\* the step in which session s finishes a run whose trigger was op
Did(s, op) ==
    /\ pc[s] = "loaded"
    /\ pc'[s] = "idle"
    /\ event'.op = op
    /\ event'.s = s

\* the calendar day a date cell or a date text stands for
DayOfCell(c) == IF c.k = "str" THEN ParseDate(c.s) ELSE c.n
SameEntry(a, b) ==
    /\ DayOfCell(a.date) = DayOfCell(b.date)
    /\ a.amount = b.amount
    /\ a.source = b.source
    /\ a.goal_id = b.goal_id
    /\ a.notes = b.notes
SameLedger(x, y) ==
    /\ Len(x) = Len(y)
    /\ \A i \in 1..Len(x) : SameEntry(x[i], y[i])
SameFileRow(a, b) ==
    /\ ParseDate(a.date) = ParseDate(b.date)
    /\ a.amount = b.amount
    /\ a.source = b.source
    /\ a.goal_id = b.goal_id
    /\ a.notes = b.notes

\* C1: every deleteGoal step leaves in the session's goal list and in the
\* goals file exactly the previous goals except the selected one, in their
\* previous order, also when another goal has the same name.
C1_DeleteRemovesOnlySelected ==
    [][\A s \in Sessions :
          Did(s, "deleteGoal") =>
              /\ goals'[s] = WithoutId(goals[s], event'.id)
              /\ goalsFile' = JsonDump(WithoutId(goals[s], event'.id))]_vars

\* C2: a deleteGoal step changes neither the ledger in memory nor the
\* savings file; entries of the deleted goal stay, orphaned.
C2_DeleteLeavesLedger ==
    [][\A s \in Sessions :
          Did(s, "deleteGoal") =>
              /\ savings_df' = savings_df
              /\ savingsFile' = savingsFile]_vars

C2_Witness ==
    /\ event.op = "deleteGoal"
    /\ event.id \notin Ids(goalsFile)
    /\ Len(savingsFile) = 2
    /\ \A i \in 1..Len(savingsFile) : savingsFile[i].goal_id = event.id
    /\ \A i \in 1..Len(savings_df[event.s]) : savings_df[event.s][i].goal_id = Str(event.id)

\* C3: the ledger is append-only within a session: an entry that is in the
\* ledger or in the savings file stays there, at its place, with the same
\* field values (dates compared as calendar days), in every later state.
C3_LedgerAppendOnly ==
    [][/\ \A s \in live : \A i \in 1..Len(savings_df[s]) :
              /\ i <= Len(savings_df'[s])
              /\ SameEntry(savings_df'[s][i], savings_df[s][i])
       /\ \A i \in 1..Len(savingsFile) :
              /\ i <= Len(savingsFile')
              /\ SameFileRow(savingsFile'[i], savingsFile[i])]_vars

NoBadEntry ==
    /\ \A s \in Sessions : \A i \in 1..Len(savings_df[s]) :
          /\ savings_df[s][i].amount.k = "float"
          /\ savings_df[s][i].amount.n >= 0
          /\ savings_df[s][i].goal_id.k = "str"
          /\ savings_df[s][i].goal_id.s # ""
    /\ \A i \in 1..Len(savingsFile) :
          /\ ParseFloat(savingsFile[i].amount) >= 0
          /\ savingsFile[i].goal_id # ""

\* C4: a logSaving with a negative amount, or with no goal to select, fails
\* leaving the ledger and the savings file as they were, and no entry with a
\* negative amount or an empty goal_id is ever in the ledger or the file.
C4_RejectedBeforeMutation ==
    [][/\ \A s \in Sessions :
              (Did(s, "logSaving") /\ ~event'.ok) =>
                  /\ savings_df' = savings_df
                  /\ savingsFile' = savingsFile
                  /\ savingsCache' = savingsCache
       /\ NoBadEntry']_vars

C4_Witness ==
    /\ event.op = "logSaving"
    /\ ~event.ok
    /\ Len(goals[event.s]) > 0
    /\ Len(savingsFile) > 0
    /\ savings_df[event.s] = ReadCsv(savingsFile, app = "v4")

\* one cycle of writing the ledger and loading it again
RoundTrip(df) == ReadCsv(ToCsv(df), app = "v4")

\* C5: right after a logSaving, writing the ledger to the file and loading
\* it again, once or twice, yields the same rows with the same field values
\* (dates compared as calendar days), empty source or notes included.
C5_RoundTrip ==
    \A s \in live :
        (event.op = "logSaving" /\ event.ok /\ event.s = s /\ pc[s] = "idle") =>
            /\ SameLedger(RoundTrip(savings_df[s]), savings_df[s])
            /\ SameLedger(RoundTrip(RoundTrip(savings_df[s])), savings_df[s])

\* totalFor(goal_id): the sum of the amounts of exactly the entries whose
\* goal_id is goal_id
RECURSIVE SumOver(_, _)
SumOver(df, idx) ==
    IF idx = {} THEN 0
    ELSE LET i == CHOOSE j \in idx : TRUE
         IN df[i].amount.n + SumOver(df, idx \ {i})
TotalFor(df, goal_id) == SumOver(df, { i \in 1..Len(df) : df[i].goal_id.s = goal_id })

\* session s has just rendered the goals and the ledger it holds
Rendered(s) ==
    /\ s \in live
    /\ pc[s] = "idle"
    /\ event.op = "rerun"
    /\ event.s = s
    /\ Len(shown[s]) = Len(goals[s])

\* C6: the percentComplete shown for a goal G with target_amount > 0 is
\* totalFor(G.id) / G.target_amount * 100: 0 when no entry matches, above 100
\* when the total exceeds the target; for target_amount <= 0 it is 0.
C6_PercentComplete ==
    \A s \in Sessions : Rendered(s) =>
        \A i \in 1..Len(goals[s]) :
            LET G == goals[s][i]
                total == TotalFor(savings_df[s], G.id)
                pct == shown[s][i].percent
            IN /\ pct.k = "num"
               /\ G.target_amount > 0 =>
                     /\ pct.n * G.target_amount = total * 100 * pct.d
                     /\ (total = 0) => (pct.n = 0)
                     /\ (total > G.target_amount) => (pct.n > 100 * pct.d)
               /\ G.target_amount <= 0 => pct.n = 0

C6_Witness ==
    \E s \in Sessions :
        /\ Rendered(s)
        /\ Len(goals[s]) = 2
        /\ shown[s][1].percent.n > 100 * shown[s][1].percent.d
        /\ shown[s][2].percent.n = 0
        /\ \E i \in 1..Len(savings_df[s]) : savings_df[s][i].goal_id = Str("g9")

\* 120 times the monthly surplus: salary * 0.7 / 12 - expenses
SurplusTimes120(s) == salary[s] * 7 - expenses[s] * 120

\* C7: estimatedMonthsToGoal is +infinity when monthlySurplus <= 0 and the
\* finite value remaining / monthlySurplus when monthlySurplus > 0, with
\* remaining = target_amount - saved amount; it is never a division fault.
C7_MonthsToGoal ==
    \A s \in Sessions : Rendered(s) =>
        \A i \in 1..Len(goals[s]) :
            LET G == goals[s][i]
                remaining == G.target_amount - TotalFor(savings_df[s], G.id)
                months == shown[s][i].months_to_goal
            IN /\ months.k # "ZeroDivisionError"
               /\ SurplusTimes120(s) <= 0 => months.k = "inf"
               /\ SurplusTimes120(s) > 0 =>
                     /\ months.k = "num"
                     /\ months.n * SurplusTimes120(s) = remaining * 120 * months.d

\* scenario B: target 1000, timeline 4, no entries, surplus 0
C7_Witness ==
    \E s \in Sessions :
        /\ Rendered(s)
        /\ SurplusTimes120(s) = 0
        /\ goals[s][1].target_amount = 1000
        /\ goals[s][1].timeline_months = 4
        /\ savings_df[s] = <<>>
        /\ shown[s][1].months_to_goal.k = "inf"
        /\ shown[s][1].percent.n = 0

\* C8: when a session writes a collection that another session has changed
\* since it was loaded, the file becomes the writer's own collection: what the
\* other session added is gone, what it deleted is back.
C8_LastWriteWins ==
    [][\A s \in Sessions :
          /\ ((Did(s, "addGoal") \/ Did(s, "deleteGoal")) /\ JsonLoad(goalsFile) # goals[s]) =>
                /\ goalsFile' = JsonDump(goals'[s])
                /\ (Ids(goalsFile) \ Ids(goals[s])) \cap Ids(goalsFile') = {}
                /\ (Ids(goals[s]) \ Ids(goalsFile)) \cap Ids(goals'[s]) \subseteq Ids(goalsFile')
          /\ (Did(s, "logSaving") /\ event'.ok
                /\ ReadCsv(savingsFile, app = "v4") # savings_df[s]) =>
                /\ savingsFile' = ToCsv(savings_df'[s])
                /\ Len(savingsFile') = Len(savings_df[s]) + 1]_vars

\* both sessions extended the same loaded list by a goal of their own, and
\* the file holds the list of the later writer only
C8_Witness ==
    \E s, t \in live :
        /\ s # t
        /\ pc[s] = "idle"
        /\ pc[t] = "idle"
        /\ event.op = "addGoal"
        /\ event.s = s
        /\ Len(goals[s]) = 2
        /\ Len(goals[t]) = 2
        /\ goals[s][1] = goals[t][1]
        /\ goals[s][2].id # goals[t][2].id
        /\ goalsFile = JsonDump(goals[s])
        /\ goals[t][2].id \notin Ids(goalsFile)

\* C9: at the end of a run in which addGoal or logSaving succeeded, what the
\* run rendered are the derived values of the collections with the new record.
C9_ShownIncludesNewRecord ==
    \A s \in live :
        (pc[s] = "idle" /\ event.s = s /\ event.ok /\ event.op \in {"addGoal", "logSaving"}) =>
            shown[s] = Render(s, goals[s], savings_df[s])

\* C10: in v4 every load_goals / load_savings returns the content of the
\* backing file as last written, whatever saves came before.
C10_LoadsAreFresh ==
    [][\A s \in Sessions :
          /\ (app = "v4" /\ pc[s] = "idle" /\ pc'[s] = "goals_loaded") =>
                goals'[s] = JsonLoad(goalsFile)
          /\ (app = "v4" /\ pc[s] = "goals_loaded" /\ pc'[s] = "loaded") =>
                savings_df'[s] = ReadCsv(savingsFile, TRUE)]_vars

\* a load served from the cache after both files were written
C10_Witness ==
    \E s \in live :
        /\ app = "v4"
        /\ pc[s] = "loaded"
        /\ goalsCache # <<>>
        /\ savingsCache # <<>>
        /\ goalsFile # <<>>
        /\ savingsFile # <<>>
        /\ \E t \in live : t # s /\ pc[t] = "loaded"

====
